---- MODULE Spec2Model ----
(***************************************************************************)
(* A model of NDATools/MindarManager.py: MindarManager.update_status,      *)
(* MindarManager.export_table_to_file and                                  *)
(* MindarManager.get_mindar_submissions.                                   *)
(*                                                                         *)
(* Python values are modelled as follows: a str or a bytes object is a     *)
(* sequence of one-character strings, a dict is a function whose DOMAIN is *)
(* its key set, a list is a sequence, None is the value None below.        *)
(***************************************************************************)
EXTENDS Integers, Sequences, FiniteSets, TLC

VARIABLES
    \* ---- update_status ----
    upd_call,       \* the arguments of the pending/finished update_status call
    upd_result,     \* "pending", "returned" or "usage_error"
    requests,       \* the HTTP requests dispatched through __authenticated_request
    \* ---- get_mindar_submissions ----
    sub_input,      \* the response of GET /{}/submissions/ as it was received
    sub_resp,       \* the same response object as it is now (a callee may mutate it)
    sub_result,     \* the outcome of the call: pending, returned (data) or raised
    \* ---- export_table_to_file ----
    exp_call,       \* the arguments table, root_dir, add_nda_header of the call
    dest_existed,   \* whether a file was at final_csv_dest when the call began
    pc,             \* the position of the call in export_table_to_file
    file_exists,    \* os.path.isfile(final_csv_dest)
    file_content,   \* the bytes of the file at final_csv_dest
    response,       \* r: status_code, whether r.text has the sentence, the chunks
    next_chunk,     \* how many chunks r.iter_content has yielded
    invalid_structure,
    progress,       \* the sum of the progress_bar.update amounts
    exc,            \* e, the exception bound by the except clause
    first_raised,   \* the first exception raised inside the try block
    printed,        \* the diagnostics printed by the except clause
    caught,         \* how many times the except clause was entered
    gets,           \* how many times session.get was called
    steps,          \* the file and network operations performed, in order
    exp_result      \* the outcome of the call: pending, returned (path) or raised

upd_vars == <<upd_call, upd_result, requests>>
sub_vars == <<sub_input, sub_resp, sub_result>>
exp_vars == <<exp_call, dest_existed, pc, file_exists, file_content, response,
              next_chunk, invalid_structure, progress, exc, first_raised, printed,
              caught, gets, steps, exp_result>>

vars == <<upd_call, upd_result, requests, sub_input, sub_resp, sub_result,
          exp_call, dest_existed, pc, file_exists, file_content, response,
          next_chunk, invalid_structure, progress, exc, first_raised, printed,
          caught, gets, steps, exp_result>>

-----------------------------------------------------------------------------
(* Python helpers *)

None == "None"

\* bool(v) of an optional string argument: None and '' are falsy
Truthy(v) == v \notin {None, ""}

EmptyDict == [k \in {} |-> None]

\* d[k] = v
Put(d, k, v) == [x \in (DOMAIN d) \cup {k} |-> IF x = k THEN v ELSE d[x]]

\* len(d)
DictLen(d) == Cardinality(DOMAIN d)

-----------------------------------------------------------------------------
(* update_status *)

Schemas == {"s1", "s2"}
TableNames == {"t1"}
\* values an optional identifier argument may be called with
ArgValues == {None, "", "id1", "id2"}

\* lines 73-81: the params dict built from the three optional arguments
UpdateParams(validation_uuid, submission_package_uuid, submission_id) ==
    LET p0 == EmptyDict
        p1 == IF Truthy(validation_uuid)
                THEN Put(p0, "validation_uuid", validation_uuid) ELSE p0
        p2 == IF Truthy(submission_id)
                THEN Put(p1, "submission_id", submission_id) ELSE p1
        p3 == IF Truthy(submission_package_uuid)
                THEN Put(p2, "submission_package_uuid", submission_package_uuid) ELSE p2
    IN p3

\* a plausible slip: only "more than one" is rejected
UsageErrorOnlyMany(params) == DictLen(params) > 1

\* line 83: if len(params) != 1: raise Exception(...)
UsageError(params) == DictLen(params) # 1

\* lines 88-89: the request handed to __authenticated_request
BulkUpdateRequest(schema, table_name, params) ==
    [verb |-> "POST",
     endpoint |-> "/{}/tables/{}/records/bulkUpdate",
     path_params |-> <<schema, table_name>>,
     data |-> params]

\* NDATools.Utils.advanced_request, reached through __authenticated_request
\* (lines 27-28): one authenticated HTTP call per invocation
AdvancedRequest(log, request) == Append(log, request)

UpdInit ==
    /\ upd_call \in [schema : Schemas, table_name : TableNames,
                     validation_uuid : ArgValues,
                     submission_package_uuid : ArgValues,
                     submission_id : ArgValues]
    /\ upd_result = "pending"
    /\ requests = <<>>

\* lines 72-89
update_status ==
    /\ upd_result = "pending"
    /\ LET params == UpdateParams(upd_call.validation_uuid,
                                  upd_call.submission_package_uuid,
                                  upd_call.submission_id)
       IN IF UsageError(params)
            THEN /\ upd_result' = "usage_error"
                 /\ UNCHANGED requests
            ELSE /\ requests' = AdvancedRequest(requests,
                        BulkUpdateRequest(upd_call.schema, upd_call.table_name, params))
                 /\ upd_result' = "returned"
    /\ UNCHANGED upd_call
    /\ UNCHANGED sub_vars
    /\ UNCHANGED exp_vars

\* no update_status call is modelled
UpdIdle ==
    /\ upd_call = [schema |-> "s1", table_name |-> "t1", validation_uuid |-> None,
                   submission_package_uuid |-> None, submission_id |-> None]
    /\ upd_result = "idle"
    /\ requests = <<>>

-----------------------------------------------------------------------------
(* get_mindar_submissions *)

MaxSubmissions == 2     \* submissions in a response
MaxTables == 2          \* tables in a response, over all its submissions

ShortNames == {"abc", "xyz"}
ValidationLists == {<<>>, <<"v1">>, <<"v1", "v2">>}
PackageLists == {<<>>, <<"p1">>, <<"p1", "p2">>}

\* a table record of the response; title stands for the table's other fields
Tables == [short_name : ShortNames, validation_uuid : ValidationLists,
           submission_package_id : PackageLists, title : {"T"}]

\* the submission_id of the m-th submission of a response
SubId(m) == 100 + m

\* the number of tables of a response, over all its submissions
RECURSIVE CountTables(_)
CountTables(resp) ==
    IF resp = <<>> THEN 0
    ELSE Len(resp[Len(resp)].tables) + CountTables(SubSeq(resp, 1, Len(resp) - 1))

NoError == [error |-> "none", category |-> "none"]
Unsupported(category) == [error |-> "unsupported", category |-> category]
IndexError == [error |-> "IndexError", category |-> "none"]

\* a plausible slip: an off-by-one in the length test
MultipleValuesOffByOne(list) == Len(list) > 2

\* lines 161, 166: if len(table[...]) > 1
MultipleValues(list) == Len(list) > 1

\* a plausible slip: a default instead of the failing list[0]
Index0Default(list) ==
    IF Len(list) = 0 THEN [error |-> "none", value |-> None]
                     ELSE [error |-> "none", value |-> list[1]]

\* lines 164, 169: list[0], which raises IndexError on an empty list
Index0(list) ==
    IF Len(list) = 0 THEN [error |-> "IndexError", value |-> None]
                     ELSE [error |-> "none", value |-> list[1]]

\* a plausible slip: result = table, an alias, so that the writes reach the input
TableAliased(table, result) == result

\* line 157: result = dict(table) is a copy: the writes to result leave table alone
TableAfterTransform(table, result) == table

\* lines 155-171: transform(table, submission_id); the value returned or the error
\* raised, and the table object as the call leaves it
transform(table, submission_id) ==
    LET r1 == Put(table, "submission_id", submission_id)
        v == Index0(table["validation_uuid"])
        r2 == Put(r1, "validation_uuid", v.value)
        p == Index0(table["submission_package_id"])
        r3 == Put(r2, "submission_package_id", p.value)
    IN  IF MultipleValues(table["validation_uuid"])
          THEN [status |-> Unsupported("validation results"), result |-> r1,
                table |-> TableAfterTransform(table, r1)]
        ELSE IF v.error # "none"
          THEN [status |-> IndexError, result |-> r1,
                table |-> TableAfterTransform(table, r1)]
        ELSE IF MultipleValues(table["submission_package_id"])
          THEN [status |-> Unsupported("submission packages"), result |-> r2,
                table |-> TableAfterTransform(table, r2)]
        ELSE IF p.error # "none"
          THEN [status |-> IndexError, result |-> r2,
                table |-> TableAfterTransform(table, r2)]
        ELSE [status |-> NoError, result |-> r3,
              table |-> TableAfterTransform(table, r3)]

\* lines 173-181: the two nested loops, from table i of submission s on;
\* st holds mindar_table_submission_data, the response object and the error raised
RECURSIVE SubmissionLoop(_, _, _)
SubmissionLoop(st, s, i) ==
    IF st.status # NoError \/ s > Len(st.resp) THEN st
    ELSE IF i > Len(st.resp[s].tables) THEN SubmissionLoop(st, s + 1, 1)
    ELSE LET table == st.resp[s].tables[i] IN
         IF table["short_name"] \in DOMAIN st.data
           THEN [st EXCEPT !.status = Unsupported("submissions")]
           ELSE LET t == transform(table, st.resp[s].submission_id) IN
                IF t.status # NoError
                  THEN [st EXCEPT !.status = t.status, !.resp[s].tables[i] = t.table]
                  ELSE SubmissionLoop(
                         [st EXCEPT !.data = Put(@, table["short_name"], t.result),
                                    !.resp[s].tables[i] = t.table],
                         s, i + 1)

SubPending == [kind |-> "pending", status |-> NoError, data |-> EmptyDict]

SubInit ==
    /\ sub_input = <<>>
    /\ sub_resp = sub_input
    /\ sub_result = SubPending

\* line 148: the service's answer to GET /{}/submissions/ gains a submission
RespondSubmission ==
    /\ sub_result.kind = "pending"
    /\ Len(sub_input) < MaxSubmissions
    /\ sub_input' = Append(sub_input,
                           [submission_id |-> SubId(Len(sub_input) + 1), tables |-> <<>>])
    /\ sub_resp' = sub_input'
    /\ UNCHANGED sub_result
    /\ UNCHANGED upd_vars
    /\ UNCHANGED exp_vars

\* line 148: the last submission of the service's answer gains a table
RespondTable ==
    /\ sub_result.kind = "pending"
    /\ Len(sub_input) > 0
    /\ CountTables(sub_input) < MaxTables
    /\ \E t \in Tables :
          sub_input' = [sub_input EXCEPT ![Len(sub_input)].tables = Append(@, t)]
    /\ sub_resp' = sub_input'
    /\ UNCHANGED sub_result
    /\ UNCHANGED upd_vars
    /\ UNCHANGED exp_vars

\* lines 147-181: existing_mindar_submissions['submissions'] is sub_resp
get_mindar_submissions ==
    /\ sub_result.kind = "pending"
    /\ LET st == SubmissionLoop([data |-> EmptyDict, resp |-> sub_resp,
                                 status |-> NoError], 1, 1)
       IN /\ sub_resp' = st.resp
          /\ sub_result' = IF st.status = NoError
                             THEN [kind |-> "returned", status |-> NoError, data |-> st.data]
                             ELSE [kind |-> "raised", status |-> st.status, data |-> EmptyDict]
    /\ UNCHANGED sub_input
    /\ UNCHANGED upd_vars
    /\ UNCHANGED exp_vars

\* no get_mindar_submissions call is modelled
SubIdle ==
    /\ sub_input = <<>>
    /\ sub_resp = <<>>
    /\ sub_result = [kind |-> "idle", status |-> NoError, data |-> EmptyDict]

-----------------------------------------------------------------------------
(* export_table_to_file: strings *)

MaxTableLen == 3        \* characters in a table identifier
MaxChunks == 3          \* chunks in a response body

Letters == {"e"}
Digits == {"0", "2"}
Alphabet == Letters \cup Digits

\* the table identifiers
TableIds == UNION { [1..n -> Alphabet] : n \in 1..MaxTableLen }

\* \d+ matches the whole of s
AllDigits(s) == Len(s) > 0 /\ \A i \in 1..Len(s) : s[i] \in Digits

Suffix(s, i) == SubSeq(s, i + 1, Len(s))

Min(S) == CHOOSE x \in S : \A y \in S : x <= y
Max(S) == CHOOSE x \in S : \A y \in S : x >= y

\* the lengths of the prefixes .* may take so that (\d+)$ matches the rest
PrefixLengths(table) == {i \in 0..(Len(table) - 1) : AllDigits(Suffix(table, i))}

\* a plausible slip: the greedy .* instead of the lazy .*?
ReSearchGreedy(table) ==
    IF PrefixLengths(table) = {} THEN None
    ELSE Suffix(table, Max(PrefixLengths(table)))

\* line 114: re.search(r'^.*?(\d+)$', table), its group(1) or None for no match;
\* the lazy .*? takes the shortest prefix that lets the rest match
ReSearch(table) ==
    IF PrefixLengths(table) = {} THEN None
    ELSE Suffix(table, Min(PrefixLengths(table)))

\* the characters of a string
CharsOf(s) == {s[i] : i \in 1..Len(s)}

\* line 115: str.rstrip(chars) drops trailing characters while they are in chars
RECURSIVE RStrip(_, _)
RStrip(s, chars) ==
    IF Len(s) > 0 /\ s[Len(s)] \in CharsOf(chars)
      THEN RStrip(SubSeq(s, 1, Len(s) - 1), chars)
      ELSE s

\* lines 114-116: '{},{}\n'.format(name, version) for a table that matches
HeaderLine(table) ==
    LET version == ReSearch(table)
        name == RStrip(table, version)
    IN name \o <<",">> \o version \o <<"\n">>

RootDirs == {<<".">>}

\* line 95: os.path.join(root_dir, '{}.csv'.format(table))
FinalCsvDest(root_dir, table) == root_dir \o <<"/">> \o table \o <<".", "c", "s", "v">>

-----------------------------------------------------------------------------
(* export_table_to_file: the response *)

\* the chunks r.iter_content may yield, the empty one among them
Chunks == {<<>>, <<"x">>, <<"y", "z">>}
ChunkSeqs == UNION { [1..n -> Chunks] : n \in 0..MaxChunks }

StatusOK == 200
StatusNotFound == 404
StatusServerError == 500

\* the responses session.get may return: the body of an error response is its text
Responses200 == [status_code : {StatusOK}, has_sentence : {FALSE}, chunks : ChunkSeqs]
ResponsesError == [status_code : {StatusNotFound, StatusServerError},
                   has_sentence : BOOLEAN, chunks : {<<>>}]
NoResponse == [status_code |-> 0, has_sentence |-> FALSE, chunks |-> <<>>]

\* a plausible slip: only the server errors count as failures
OkBelow500(r) == r.status_code < 500

\* line 107: r.ok
Ok(r) == r.status_code < 400

\* line 108: status 404 and the sentence naming the table is in r.text
IsInvalidStructure(r) == r.status_code = StatusNotFound /\ r.has_sentence

\* a plausible slip: one unit of progress per chunk
ProgressPerChunk(content) == 1

\* line 123: progress_bar.update(len(content))
ProgressAmount(content) == Len(content)

\* the bytes left in the file before the call, when there was one
OldContent == <<"o", "l", "d">>

-----------------------------------------------------------------------------
(* export_table_to_file: the steps *)

Pending == [kind |-> "pending", value |-> None]

\* line 130: except Exception catches every exception but the BaseException-only
\* ones (KeyboardInterrupt)
Caught(e) == e # "KeyboardInterrupt"

\* an exception e leaves the try block: into the except clause, or out of the call
Raise(e) ==
    /\ first_raised' = IF first_raised = None THEN e ELSE first_raised
    /\ IF Caught(e)
         THEN /\ pc' = "handler"
              /\ exc' = e
              /\ caught' = caught + 1
              /\ UNCHANGED exp_result
         ELSE /\ pc' = "done"
              /\ exp_result' = [kind |-> "raised", value |-> e]
              /\ UNCHANGED <<exc, caught>>

ExpInit ==
    /\ exp_call \in [table : TableIds, root_dir : RootDirs, add_nda_header : BOOLEAN]
    /\ dest_existed \in BOOLEAN
    /\ pc = "remove_old"
    /\ file_exists = dest_existed
    /\ file_content = IF dest_existed THEN OldContent ELSE <<>>
    /\ response = NoResponse
    /\ next_chunk = 0
    /\ invalid_structure = FALSE
    /\ progress = 0
    /\ exc = None
    /\ first_raised = None
    /\ printed = {}
    /\ caught = 0
    /\ gets = 0
    /\ steps = <<>>
    /\ exp_result = Pending

\* lines 97-98: if os.path.isfile(final_csv_dest): os.remove(final_csv_dest)
RemoveOld ==
    /\ pc = "remove_old"
    /\ IF file_exists
         THEN \/ /\ file_exists' = FALSE
                 /\ file_content' = <<>>
                 /\ steps' = Append(steps, "remove_old")
                 /\ pc' = "open"
                 /\ UNCHANGED <<exc, first_raised, caught, exp_result>>
              \/ /\ Raise("OSError_remove")
                 /\ UNCHANGED <<file_exists, file_content, steps>>
         ELSE /\ pc' = "open"
              /\ UNCHANGED <<file_exists, file_content, steps, exc, first_raised,
                             caught, exp_result>>
    /\ UNCHANGED <<exp_call, dest_existed, response, next_chunk, invalid_structure,
                   progress, printed, gets>>
    /\ UNCHANGED <<upd_vars, sub_vars>>

\* line 100: open(final_csv_dest, 'wb') creates the file empty, or fails
Open ==
    /\ pc = "open"
    /\ \/ /\ file_exists' = TRUE
          /\ file_content' = <<>>
          /\ steps' = Append(steps, "open")
          /\ pc' = "get"
          /\ UNCHANGED <<exc, first_raised, caught, exp_result>>
       \/ /\ Raise("OSError_open")
          /\ UNCHANGED <<file_exists, file_content, steps>>
    /\ UNCHANGED <<exp_call, dest_existed, response, next_chunk, invalid_structure,
                   progress, printed, gets>>
    /\ UNCHANGED <<upd_vars, sub_vars>>

\* line 106: self.session.get(..., stream=True, ...) answers or raises
Get ==
    /\ pc = "get"
    /\ gets' = gets + 1
    /\ steps' = Append(steps, "get")
    /\ \/ /\ response' \in Responses200 \cup ResponsesError
          /\ pc' = "status"
          /\ UNCHANGED <<exc, first_raised, caught, exp_result>>
       \/ /\ Raise("ConnectionError")
          /\ UNCHANGED response
    /\ UNCHANGED <<exp_call, dest_existed, file_exists, file_content, next_chunk,
                   invalid_structure, progress, printed>>
    /\ UNCHANGED <<upd_vars, sub_vars>>

\* lines 107-111: if not r.ok: classify, then r.raise_for_status()
CheckStatus ==
    /\ pc = "status"
    /\ IF ~Ok(response)
         THEN /\ invalid_structure' = IsInvalidStructure(response)
              /\ Raise("HTTPError")
         ELSE /\ pc' = "header"
              /\ UNCHANGED <<invalid_structure, exc, first_raised, caught, exp_result>>
    /\ UNCHANGED <<exp_call, dest_existed, file_exists, file_content, response,
                   next_chunk, progress, printed, gets, steps>>
    /\ UNCHANGED <<upd_vars, sub_vars>>

\* lines 113-116: the optional header line; .group(1) of no match raises
\* AttributeError, f.write may raise
WriteHeader ==
    /\ pc = "header"
    /\ IF exp_call.add_nda_header
         THEN IF ReSearch(exp_call.table) = None
                THEN /\ Raise("AttributeError")
                     /\ UNCHANGED <<file_content, steps>>
                ELSE \/ /\ file_content' = file_content \o HeaderLine(exp_call.table)
                        /\ steps' = Append(steps, "header")
                        /\ pc' = "stream"
                        /\ UNCHANGED <<exc, first_raised, caught, exp_result>>
                     \/ /\ Raise("OSError_write_header")
                        /\ UNCHANGED <<file_content, steps>>
         ELSE /\ pc' = "stream"
              /\ UNCHANGED <<file_content, steps, exc, first_raised, caught, exp_result>>
    /\ UNCHANGED <<exp_call, dest_existed, file_exists, response, next_chunk,
                   invalid_structure, progress, printed, gets>>
    /\ UNCHANGED <<upd_vars, sub_vars>>

\* lines 120-123: one turn of the loop over r.iter_content(chunk_size=None): the
\* next chunk is written and counted when it is not empty; reading or writing may
\* raise
StreamChunk ==
    /\ pc = "stream"
    /\ next_chunk < Len(response.chunks)
    /\ LET content == response.chunks[next_chunk + 1] IN
       \/ /\ next_chunk' = next_chunk + 1
          /\ IF content # <<>>
               THEN /\ file_content' = file_content \o content
                    /\ progress' = progress + ProgressAmount(content)
                    /\ steps' = Append(steps, "chunk")
               ELSE UNCHANGED <<file_content, progress, steps>>
          /\ UNCHANGED <<pc, exc, first_raised, caught, exp_result>>
       \/ /\ Raise("ChunkedEncodingError")
          /\ UNCHANGED <<next_chunk, file_content, progress, steps>>
       \/ /\ content # <<>>
          /\ Raise("OSError_write_chunk")
          /\ UNCHANGED <<next_chunk, file_content, progress, steps>>
    /\ UNCHANGED <<exp_call, dest_existed, file_exists, response, invalid_structure,
                   printed, gets>>
    /\ UNCHANGED <<upd_vars, sub_vars>>

\* line 120: r.iter_content is exhausted
StreamEnd ==
    /\ pc = "stream"
    /\ next_chunk = Len(response.chunks)
    /\ pc' = "flush"
    /\ UNCHANGED <<exp_call, dest_existed, file_exists, file_content, response,
                   next_chunk, invalid_structure, progress, exc, first_raised, printed,
                   caught, gets, steps, exp_result>>
    /\ UNCHANGED <<upd_vars, sub_vars>>

\* line 125: f.flush() succeeds or raises
Flush ==
    /\ pc = "flush"
    /\ \/ /\ steps' = Append(steps, "flush")
          /\ pc' = "return"
          /\ UNCHANGED <<exc, first_raised, caught, exp_result>>
       \/ /\ Raise("OSError_flush")
          /\ UNCHANGED steps
    /\ UNCHANGED <<exp_call, dest_existed, file_exists, file_content, response,
                   next_chunk, invalid_structure, progress, printed, gets>>
    /\ UNCHANGED <<upd_vars, sub_vars>>

\* line 128: return f.name, the path the file was opened with; leaving the with
\* block closes the file, which may raise
Return ==
    /\ pc = "return"
    /\ \/ /\ exp_result' = [kind |-> "returned",
                            value |-> FinalCsvDest(exp_call.root_dir, exp_call.table)]
          /\ steps' = Append(steps, "return")
          /\ pc' = "done"
          /\ UNCHANGED <<exc, first_raised, caught>>
       \/ /\ Raise("OSError_close")
          /\ UNCHANGED steps
    /\ UNCHANGED <<exp_call, dest_existed, file_exists, file_content, response,
                   next_chunk, invalid_structure, progress, printed, gets>>
    /\ UNCHANGED <<upd_vars, sub_vars>>

\* lines 131-139: the diagnostic of the except clause
Handler ==
    /\ pc = "handler"
    /\ printed' = IF invalid_structure
                    THEN {"missing_structure"}
                    ELSE {"generic", "stack_trace", "elapsed"}
    /\ pc' = "cleanup"
    /\ UNCHANGED <<exp_call, dest_existed, file_exists, file_content, response,
                   next_chunk, invalid_structure, progress, exc, first_raised, caught,
                   gets, steps, exp_result>>
    /\ UNCHANGED <<upd_vars, sub_vars>>

\* lines 142-145: if os.path.isfile(final_csv_dest): os.remove(final_csv_dest),
\* then raise e; an os.remove that fails raises its own error out of the clause
Cleanup ==
    /\ pc = "cleanup"
    /\ IF file_exists
         THEN \/ /\ file_exists' = FALSE
                 /\ file_content' = <<>>
                 /\ steps' = Append(steps, "cleanup")
                 /\ exp_result' = [kind |-> "raised", value |-> exc]
              \/ /\ exp_result' = [kind |-> "raised", value |-> "OSError_cleanup"]
                 /\ UNCHANGED <<file_exists, file_content, steps>>
         ELSE /\ exp_result' = [kind |-> "raised", value |-> exc]
              /\ UNCHANGED <<file_exists, file_content, steps>>
    /\ pc' = "done"
    /\ UNCHANGED <<exp_call, dest_existed, response, next_chunk, invalid_structure,
                   progress, exc, first_raised, printed, caught, gets>>
    /\ UNCHANGED <<upd_vars, sub_vars>>

\* the call is interrupted (KeyboardInterrupt) at any point before it ends: inside
\* the try block line 130 does not catch it, inside the except clause nothing does
Interrupt ==
    /\ pc \notin {"idle", "done"}
    /\ first_raised' = IF first_raised = None THEN "KeyboardInterrupt" ELSE first_raised
    /\ exp_result' = [kind |-> "raised", value |-> "KeyboardInterrupt"]
    /\ pc' = "done"
    /\ UNCHANGED <<exp_call, dest_existed, file_exists, file_content, response,
                   next_chunk, invalid_structure, progress, exc, printed, caught,
                   gets, steps>>
    /\ UNCHANGED <<upd_vars, sub_vars>>

\* no export_table_to_file call is modelled
ExpIdle ==
    /\ exp_call = [table |-> <<"e">>, root_dir |-> <<".">>, add_nda_header |-> FALSE]
    /\ dest_existed = FALSE
    /\ pc = "idle"
    /\ file_exists = FALSE
    /\ file_content = <<>>
    /\ response = NoResponse
    /\ next_chunk = 0
    /\ invalid_structure = FALSE
    /\ progress = 0
    /\ exc = None
    /\ first_raised = None
    /\ printed = {}
    /\ caught = 0
    /\ gets = 0
    /\ steps = <<>>
    /\ exp_result = [kind |-> "idle", value |-> None]

-----------------------------------------------------------------------------
(* Specifications, one per operation *)

InitUpdate ==
    /\ UpdInit
    /\ SubIdle
    /\ ExpIdle

UpdNext == update_status

SpecUpdate == InitUpdate /\ [][UpdNext]_vars

InitSubmissions ==
    /\ SubInit
    /\ UpdIdle
    /\ ExpIdle

SubNext == RespondSubmission \/ RespondTable \/ get_mindar_submissions

SpecSubmissions == InitSubmissions /\ [][SubNext]_vars

InitExport ==
    /\ ExpInit
    /\ UpdIdle
    /\ SubIdle

ExpNext ==
    \/ RemoveOld
    \/ Open
    \/ Get
    \/ CheckStatus
    \/ WriteHeader
    \/ StreamChunk
    \/ StreamEnd
    \/ Flush
    \/ Return
    \/ Handler
    \/ Cleanup
    \/ Interrupt

SpecExport == InitExport /\ [][ExpNext]_vars

-----------------------------------------------------------------------------
(* Claims about update_status *)

UpdKeys == {"validation_uuid", "submission_package_uuid", "submission_id"}

\* the keys whose argument is not None / is truthy in the call
UpdGiven == {k \in UpdKeys : upd_call[k] # None}
UpdTruthy == {k \in UpdKeys : Truthy(upd_call[k])}

\* what the claim demands of a finished call, for a set S of supplied keys
UpdContract(S) ==
    upd_result # "pending" =>
        /\ Cardinality(S) # 1 => (upd_result = "usage_error" /\ requests = <<>>)
        /\ Cardinality(S) = 1 =>
              /\ upd_result = "returned"
              /\ Len(requests) = 1
              /\ requests[1].verb = "POST"
              /\ requests[1].endpoint = "/{}/tables/{}/records/bulkUpdate"
              /\ requests[1].path_params = <<upd_call.schema, upd_call.table_name>>
              /\ DOMAIN requests[1].data = S
              /\ \A k \in S : requests[1].data[k] = upd_call[k]

\* C2 (as stated): with "called with" read as "passed a value other than None",
\* zero or two-or-more of the three identifiers give a usage error and no request,
\* exactly one gives one POST to .../records/bulkUpdate carrying only that key.
C2_AsStated == UpdContract(UpdGiven)

\* C2 (amended): the same contract, counting an identifier as supplied only when
\* its value is truthy (neither None nor empty).
C2_Amended == UpdContract(UpdTruthy)

\* an empty identifier was passed beside a real one, and the request went out
C2_Witness ==
    /\ upd_result = "returned"
    /\ Len(requests) = 1
    /\ Cardinality(UpdGiven) = 2
    /\ Cardinality(UpdTruthy) = 1

-----------------------------------------------------------------------------
(* Claims about get_mindar_submissions *)

\* the places <<s, i>> of the tables of the response as received
Places == UNION { { <<s, i>> : i \in 1..Len(sub_input[s].tables) } :
                  s \in 1..Len(sub_input) }
TableAt(p) == sub_input[p[1]].tables[p[2]]
NamesIn == { TableAt(p)["short_name"] : p \in Places }

SubFinished == sub_result.kind \in {"returned", "raised"}

\* a short_name under more than one submission / in more than one table
DupAcross == \E p, q \in Places : /\ p[1] # q[1]
                                  /\ TableAt(p)["short_name"] = TableAt(q)["short_name"]
DupAny == \E p, q \in Places : /\ p # q
                               /\ TableAt(p)["short_name"] = TableAt(q)["short_name"]
MultiValidation == \E p \in Places : Len(TableAt(p)["validation_uuid"]) > 1
MultiPackage == \E p \in Places : Len(TableAt(p)["submission_package_id"]) > 1
EmptyIdList == \E p \in Places : \/ Len(TableAt(p)["validation_uuid"]) = 0
                                 \/ Len(TableAt(p)["submission_package_id"]) = 0

\* the unsupported-configuration error, naming a category the response shows
UnsupportedRaised ==
    /\ sub_result.kind = "raised"
    /\ sub_result.status.error = "unsupported"
    /\ \/ sub_result.status.category = "submissions" /\ DupAny
       \/ sub_result.status.category = "validation results" /\ MultiValidation
       \/ sub_result.status.category = "submission packages" /\ MultiPackage

\* a returned mapping holds one submission and at most one id of each kind per name
OneValuePerName ==
    sub_result.kind = "returned" =>
        \A n \in DOMAIN sub_result.data :
            /\ Cardinality({p \in Places : TableAt(p)["short_name"] = n}) = 1
            /\ \A p \in Places : TableAt(p)["short_name"] = n =>
                   /\ Len(TableAt(p)["validation_uuid"]) <= 1
                   /\ Len(TableAt(p)["submission_package_id"]) <= 1

\* C4 (as stated): whenever a short_name is under more than one submission or an
\* id list has more than one element, the call fails with the
\* unsupported-configuration error; a returned mapping has one value per short_name.
C4_AsStated ==
    SubFinished =>
        /\ (DupAcross \/ MultiValidation \/ MultiPackage) => UnsupportedRaised
        /\ OneValuePerName

\* C4 (amended): in those cases the call always fails and returns no mapping; the
\* failure is the unsupported-configuration error provided no table of the response
\* has an empty id list (an empty list reached first raises an indexing error).
C4_Amended ==
    SubFinished =>
        /\ (DupAcross \/ MultiValidation \/ MultiPackage) =>
               /\ sub_result.kind = "raised"
               /\ ~EmptyIdList => UnsupportedRaised
        /\ OneValuePerName

\* two submissions hold the same short_name and the call raised for 'submissions'
C4_Witness ==
    /\ DupAcross
    /\ sub_result.kind = "raised"
    /\ sub_result.status = Unsupported("submissions")

\* every record of a returned mapping has both ids, neither missing nor None
NoDefaultId ==
    sub_result.kind = "returned" =>
        \A n \in DOMAIN sub_result.data :
            /\ {"validation_uuid", "submission_package_id"} \subseteq DOMAIN sub_result.data[n]
            /\ sub_result.data[n]["validation_uuid"] # None
            /\ sub_result.data[n]["submission_package_id"] # None

\* C10 (as stated): a response with an empty validation_uuid or
\* submission_package_id list makes the call fail with an indexing error, never the
\* unsupported-configuration error, and no record with a default id is produced.
C10_AsStated ==
    SubFinished =>
        /\ EmptyIdList => (sub_result.kind = "raised" /\ sub_result.status = IndexError)
        /\ NoDefaultId

\* C10 (amended): such a response always makes the call fail without a mapping; the
\* failure is the indexing error provided the response has no repeated short_name
\* and no id list of more than one element (one reached first raises the
\* unsupported-configuration error instead).
C10_Amended ==
    SubFinished =>
        /\ EmptyIdList =>
               /\ sub_result.kind = "raised"
               /\ ~(DupAny \/ MultiValidation \/ MultiPackage) => sub_result.status = IndexError
        /\ NoDefaultId

\* a table with an empty id list made the call raise the indexing error
C10_Witness ==
    /\ EmptyIdList
    /\ sub_result.kind = "raised"
    /\ sub_result.status = IndexError

\* every short_name once, every id list of exactly one element
WellFormedResponse ==
    /\ ~DupAny
    /\ \A p \in Places : /\ Len(TableAt(p)["validation_uuid"]) = 1
                         /\ Len(TableAt(p)["submission_package_id"]) = 1

\* C8: for a response with every short_name once and one-element id lists the call
\* returns a mapping keyed by exactly the short_names; each record keeps the table's
\* other fields, carries the containing submission's id and the single element of
\* each id list; the table records of the response are left as they were.
C8_Reshape ==
    (SubFinished /\ WellFormedResponse) =>
        /\ sub_result.kind = "returned"
        /\ DOMAIN sub_result.data = NamesIn
        /\ \A p \in Places :
             LET t == TableAt(p)
                 r == sub_result.data[t["short_name"]]
             IN /\ DOMAIN r = (DOMAIN t) \cup {"submission_id"}
                /\ r["short_name"] = t["short_name"]
                /\ r["title"] = t["title"]
                /\ r["submission_id"] = sub_input[p[1]].submission_id
                /\ r["validation_uuid"] = t["validation_uuid"][1]
                /\ r["submission_package_id"] = t["submission_package_id"][1]
        /\ sub_resp = sub_input

\* two submissions with one well-formed table each were reshaped into two records
C8_Witness ==
    /\ WellFormedResponse
    /\ Len(sub_input) = 2
    /\ \A s \in 1..Len(sub_input) : Len(sub_input[s].tables) = 1
    /\ sub_result.kind = "returned"
    /\ Cardinality(DOMAIN sub_result.data) = 2

-----------------------------------------------------------------------------
(* Claims about export_table_to_file *)

ExpDone == pc = "done"
ExpFailed == pc = "done" /\ exp_result.kind = "raised"
ExpReturned == pc = "done" /\ exp_result.kind = "returned"

\* the concatenation of the first n chunks of a body
RECURSIVE ConcatChunks(_, _)
ConcatChunks(chunks, n) ==
    IF n = 0 THEN <<>> ELSE ConcatChunks(chunks, n - 1) \o chunks[n]

\* the sum of the lengths of the first n chunks of a body
RECURSIVE SumLengths(_, _)
SumLengths(chunks, n) ==
    IF n = 0 THEN 0 ELSE SumLengths(chunks, n - 1) + Len(chunks[n])

\* the length of the maximal run of digits that ends s
RECURSIVE TrailingDigitCount(_)
TrailingDigitCount(s) ==
    IF s = <<>> \/ s[Len(s)] \notin Digits THEN 0
    ELSE 1 + TrailingDigitCount(SubSeq(s, 1, Len(s) - 1))

VersionPart(s) == SubSeq(s, Len(s) - TrailingDigitCount(s) + 1, Len(s))
NamePart(s) == SubSeq(s, 1, Len(s) - TrailingDigitCount(s))

\* the header line the call is to write: '<name>,<version>\n' or nothing
ExpectedHeader ==
    IF exp_call.add_nda_header
      THEN NamePart(exp_call.table) \o <<",">> \o VersionPart(exp_call.table) \o <<"\n">>
      ELSE <<>>

\* a 2xx status
SuccessStatus(r) == r.status_code \in 200..299

\* the file that was at the destination before the call is still there
OldFilePresent == file_exists /\ file_content = OldContent

\* C1 (as stated): on every exit of the call that is not a successful return, an
\* interruption included, no file exists at <root_dir>/<table>.csv.
C1_NoFileAfterFailure == ExpFailed => ~file_exists

\* C3: on return after a success response of any chunks, the file holds the optional
\* header line followed by all chunks in order, the progress total is the sum of the
\* chunk lengths, and the value returned is the path <root_dir>/<table>.csv.
C3_FileOnReturn ==
    ExpReturned =>
        /\ SuccessStatus(response)
        /\ file_exists
        /\ file_content = ExpectedHeader \o ConcatChunks(response.chunks, Len(response.chunks))
        /\ progress = SumLengths(response.chunks, Len(response.chunks))
        /\ exp_result.value =
             exp_call.root_dir \o <<"/">> \o exp_call.table \o <<".", "c", "s", "v">>

\* a body of three chunks, the middle one empty, was exported under a header
C3_Witness ==
    /\ ExpReturned
    /\ exp_call.add_nda_header
    /\ Len(response.chunks) = 3
    /\ response.chunks[1] # <<>>
    /\ response.chunks[2] = <<>>
    /\ response.chunks[3] # <<>>
    /\ file_content = <<"e", ",", "0", "2", "\n", "x", "y", "z">>
    /\ progress = 3

\* the call ended by an interruption rather than by an exception line 130 catches
Interrupted == exp_result = [kind |-> "raised", value |-> "KeyboardInterrupt"]

\* C5 (as stated, for the exceptions the except clause can catch): an exception
\* raised during the call is caught once and, after the diagnostic and the cleanup,
\* that same exception reaches the caller; the call issues at most one GET.
C5_SameExceptionReraised ==
    /\ gets <= 1
    /\ (ExpDone /\ first_raised # None /\ ~Interrupted) =>
           /\ caught = 1
           /\ printed # {}
           /\ ~file_exists
           /\ exp_result = [kind |-> "raised", value |-> first_raised]

\* C6 (as stated, for the failures the except clause can catch): a failed call
\* prints the missing-structure diagnostic exactly when the response was a 404 with
\* the sentence for the table, every other failure prints the generic diagnostic
\* with the stack trace and the elapsed time, and in both cases the file is gone.
C6_DiagnosticAndCleanup ==
    (ExpFailed /\ ~Interrupted) =>
        /\ IF response.status_code = StatusNotFound /\ response.has_sentence
             THEN printed = {"missing_structure"}
             ELSE printed = {"generic", "stack_trace", "elapsed"}
        /\ ~file_exists

\* the place of an operation in the claimed order
Rank(step) ==
    CASE step = "remove_old" -> 1
      [] step = "open" -> 2
      [] step = "get" -> 3
      [] step = "header" -> 4
      [] step = "chunk" -> 5
      [] step = "flush" -> 6
      [] step = "return" -> 7
      [] step = "cleanup" -> 8

\* the operations happened in the claimed order, each once but for the chunks
StepsInOrder ==
    \A i, j \in 1..Len(steps) :
        i < j => \/ Rank(steps[i]) < Rank(steps[j])
                 \/ steps[i] = "chunk" /\ steps[j] = "chunk"

\* the order of C9 and its first two consequences
C9_Order ==
    /\ StepsInOrder
    /\ \A i \in 1..Len(steps) :
          /\ steps[i] \in {"header", "chunk", "flush", "return"} => SuccessStatus(response)
          /\ steps[i] = "get" => (i > 1 /\ steps[i - 1] = "open")
          /\ steps[i] = "open" => (dest_existed <=> (i > 1 /\ steps[i - 1] = "remove_old"))
    /\ (gets > 0 /\ ~SuccessStatus(response)) => file_content = <<>>
    /\ gets > 0 => ~OldFilePresent
    /\ ExpReturned => steps[Len(steps)] = "return" /\ steps[Len(steps) - 1] = "flush"

PastHeader == pc \in {"stream", "flush", "return"} \/ ExpReturned

\* C7: with the header flag and a table that ends in a digit the file starts with
\* '<name>,<version>\n', version the maximal run of trailing digits and name the
\* rest, ahead of every body byte; without the flag no header line is written.
C7_HeaderLine ==
    PastHeader =>
        /\ NamePart(exp_call.table) \o VersionPart(exp_call.table) = exp_call.table
        /\ (exp_call.add_nda_header /\ TrailingDigitCount(exp_call.table) > 0) =>
              /\ file_content = ExpectedHeader \o ConcatChunks(response.chunks, next_chunk)
              /\ "header" \in {steps[i] : i \in 1..Len(steps)}
        /\ ~exp_call.add_nda_header =>
              /\ file_content = ConcatChunks(response.chunks, next_chunk)
              /\ "header" \notin {steps[i] : i \in 1..Len(steps)}

\* the header of table 'e02' is in the file and no chunk has been read yet
C7_Witness ==
    /\ pc = "stream"
    /\ next_chunk = 0
    /\ exp_call.add_nda_header
    /\ exp_call.table = <<"e", "0", "2">>
    /\ file_content = <<"e", ",", "0", "2", "\n">>

====
